---- MODULE Spec2Model ----
(***************************************************************************)
(* Model of concurrent_file_processing (src/main.go): a FileProcessor      *)
(* loads its configuration, ProcessFiles spawns WorkerCount goroutines,    *)
(* feeds one Job per file into a buffered channel, closes it, waits on a   *)
(* WaitGroup and closes the Results channel; each Worker selects between   *)
(* the job channel and ctx.Done(), runs CountWord and sends the Result.    *)
(*                                                                         *)
(* src/main.go holds the program twice: lines 1-196 with LoadConfig, and   *)
(* lines 198-340 with a main that builds the FileProcessor from literals;  *)
(* ProcessFiles, Worker and CountWord are the same in both, and the model  *)
(* follows the first.                                                      *)
(*                                                                         *)
(* Job and Result carry a ghost field id (the position of the file in      *)
(* fp.Files) that the Go structs do not have; it only identifies a Job in  *)
(* the properties and never influences a transition.                       *)
(***************************************************************************)
EXTENDS Integers, Sequences, FiniteSets, TLC

\* ------------------------------------------------------------------ bounds
MaxFiles == 2
MaxWorkers == 2
MinWorkers == 0 - 1

Workers == 1..MaxWorkers

\* ------------------------------------------------------- the file system
\* What os.Open and the bufio.Scanner see.  exists = FALSE: os.Open fails.
\* data: the bytes of the file.  ioerr = TRUE: the read that follows the
\* last byte fails with an I/O error instead of io.EOF.
Paths == {"ok.txt", "missing.txt", "bad.txt"}

FS ==
  [p \in Paths |->
     CASE p = "ok.txt"      -> [exists |-> TRUE,
                                data |-> <<"g","o","g","\n","g","o","G","o","g","o","\r","\n">>,
                                ioerr |-> FALSE]
       [] p = "missing.txt" -> [exists |-> FALSE, data |-> <<>>, ioerr |-> FALSE]
       [] p = "bad.txt"     -> [exists |-> TRUE,
                                data |-> <<"a","g","o","g","o">>,
                                ioerr |-> TRUE]]

TargetWord == <<"g","o">>

\* --------------------------------------------------------- pure functions
\* bufio.ScanLines: the tokens of data, split at "\n", one trailing "\r"
\* dropped from each token; a last line without "\n" is a token when it is
\* not empty.
DropCR(tok) ==
  IF Len(tok) > 0 /\ tok[Len(tok)] = "\r" THEN SubSeq(tok, 1, Len(tok) - 1) ELSE tok

RECURSIVE SplitFrom(_, _, _)
SplitFrom(data, k, cur) ==
  IF k > Len(data)
    THEN IF Len(cur) > 0 THEN <<DropCR(cur)>> ELSE <<>>
    ELSE IF data[k] = "\n"
           THEN <<DropCR(cur)>> \o SplitFrom(data, k + 1, <<>>)
           ELSE SplitFrom(data, k + 1, Append(cur, data[k]))

ScanLines(data) == SplitFrom(data, 1, <<>>)

\* strings.Contains in the place of strings.Count: a line counts once
CountContains(s, sub) ==
  IF \E k \in 1..(Len(s) + 1) :
        /\ k + Len(sub) - 1 <= Len(s)
        /\ \A j \in 1..Len(sub) : s[k + j - 1] = sub[j]
    THEN 1 ELSE 0

\* strings.Count(s, substr): the number of non-overlapping instances of
\* substr in s, found left to right; for the empty substr, 1 + the number
\* of runes of s.
HasPrefixAt(s, k, sub) ==
  /\ k + Len(sub) - 1 <= Len(s)
  /\ \A j \in 1..Len(sub) : s[k + j - 1] = sub[j]

RECURSIVE CountFrom(_, _, _)
CountFrom(s, k, sub) ==
  IF k + Len(sub) - 1 > Len(s) THEN 0
  ELSE IF HasPrefixAt(s, k, sub)
         THEN 1 + CountFrom(s, k + Len(sub), sub)
         ELSE CountFrom(s, k + 1, sub)

Count(s, sub) == IF Len(sub) = 0 THEN Len(s) + 1 ELSE CountFrom(s, 1, sub)

\* ------------------------------------------------------------ data types
Job(path, w, n) == [FilePath |-> path, Word |-> w, id |-> n]
NoJob == [FilePath |-> "", Word |-> <<>>, id |-> 0]

Result(path, cnt, err, n) ==
  [FilePath |-> path, WordCount |-> cnt, Error |-> err, id |-> n]
NoResult == [FilePath |-> "", WordCount |-> 0, Error |-> "nil", id |-> 0]

NewFileProcessor(fs, w, wc) == [Files |-> fs, Word |-> w, WorkerCount |-> wc]

\* ----------------------------------------------------------------- state
VARIABLES
  pc,            \* where main / ProcessFiles stands
  fp,            \* the FileProcessor: Files, Word, WorkerCount
  jobs,          \* the buffered job channel
  jobsCap,       \* its capacity
  jobsClosed,    \* close(jobs) was called
  results,       \* fp.Results, the buffered result channel
  resultsCap,    \* its capacity
  resultsClosed, \* close(fp.Results) was called
  wg,            \* the WaitGroup counter
  i,             \* the spawn loop counter
  next,          \* the index of the next file of the feed loop
  cancelled,     \* ctx.Done() is closed
  wk,            \* per worker: pc and the locals job, line, wordCount, result, open
  enqueued,      \* ghost: ids of the Jobs sent on jobs, in order
  dequeued,      \* ghost: ids of the Jobs received from jobs, in order
  published,     \* ghost: every Result sent on fp.Results, in order
  snap,          \* ghost: what was queued and in flight when cancel() ran
  run,           \* which call of ProcessFiles this is: 1 or 2
  prev           \* ghost: the Results published by the previous call

vars == <<pc, fp, jobs, jobsCap, jobsClosed, results, resultsCap, resultsClosed,
          wg, i, next, cancelled, wk, enqueued, dequeued, published, snap, run, prev>>

chans == <<jobs, jobsCap, jobsClosed, results, resultsCap, resultsClosed>>
ghosts == <<enqueued, dequeued, published, snap, prev>>

IdleWorker ==
  [pc |-> "idle", job |-> NoJob, line |-> 0, wordCount |-> 0,
   result |-> NoResult, open |-> FALSE]

NoSnap == [taken |-> FALSE, fresh |-> FALSE, inflight |-> {}, checks |-> {}]

\* A send on a closed channel panics and the panic ends the program.
Crashed == \E w \in Workers : wk[w].pc = "panic"

Init ==
  /\ pc = "load"
  /\ fp = NewFileProcessor(<<>>, <<>>, 0)
  /\ jobs = <<>> /\ jobsCap = 0 /\ jobsClosed = FALSE
  /\ results = <<>> /\ resultsCap = 0 /\ resultsClosed = FALSE
  /\ wg = 0 /\ i = 0 /\ next = 1
  /\ cancelled = FALSE
  /\ wk = [w \in Workers |-> IdleWorker]
  /\ enqueued = <<>> /\ dequeued = <<>> /\ published = <<>>
  /\ snap = NoSnap
  /\ run = 1 /\ prev = <<>>

\* ------------------------------------------------------------ LoadConfig
FileLists == UNION {[1..n -> Paths] : n \in 0..MaxFiles}

\* The file list of the cancellation scenario: ten readable files.
TenFiles == [k \in 1..10 |-> "ok.txt"]

\* What viper can hand to LoadConfig: any file list and worker count with
\* the target word, the empty word with one file of each kind, and the
\* cancellation scenario.
Configs ==
  {[files |-> fs, word |-> TargetWord, workerCount |-> wc] :
      fs \in FileLists, wc \in MinWorkers..MaxWorkers}
  \cup {[files |-> <<p>>, word |-> <<>>, workerCount |-> 1] : p \in Paths}
  \cup {[files |-> TenFiles, word |-> TargetWord, workerCount |-> 1]}

\* The error LoadConfig returns next to the FileProcessor: always nil,
\* whatever the values are.
LoadConfigErr(fs, w, wc) == "nil"

\* main: fp, err := LoadConfig(); if err != nil { return }
LoadConfig ==
  /\ pc = "load"
  /\ \E cfg \in Configs :
       /\ fp' = NewFileProcessor(cfg.files, cfg.word, cfg.workerCount)
       /\ pc' = IF LoadConfigErr(cfg.files, cfg.word, cfg.workerCount) = "nil"
                  THEN "start" ELSE "exit"
  /\ UNCHANGED <<chans, wg, i, next, cancelled, wk, ghosts, run>>

\* ---------------------------------------------------------- cancellation
InFlight == {w \in Workers : wk[w].pc \in {"open", "scan", "publish"}}

\* The workers whose CountWord will run its per-line ctx check at least
\* once more: the file opens and scanner.Scan() has a further line.
NumLines(path) == Len(ScanLines(FS[path].data))

AtLineCheck(w) ==
  \/ wk[w].pc = "open" /\ FS[wk[w].job.FilePath].exists
                       /\ NumLines(wk[w].job.FilePath) > 0
  \/ wk[w].pc = "scan" /\ wk[w].line < NumLines(wk[w].job.FilePath)

\* The caller of ProcessFiles cancels ctx at any moment before ProcessFiles
\* has returned (main.go itself only cancels on exit, see MainExit).  A
\* caller that goes on to a second call does not cancel.
Cancel ==
  /\ ~Crashed
  /\ run = 1
  /\ pc \in {"start", "spawn", "feed", "wait", "closeResults"}
  /\ ~cancelled
  /\ cancelled' = TRUE
  /\ snap' = [taken    |-> TRUE,
              fresh    |-> Len(dequeued) = 0,
              inflight |-> {wk[w].job.id : w \in InFlight},
              checks   |-> {wk[w].job.id : w \in {v \in InFlight : AtLineCheck(v)}}]
  /\ UNCHANGED <<pc, fp, chans, wg, i, next, wk, enqueued, dequeued, published,
                 run, prev>>

\* ----------------------------------------------------------- ProcessFiles
\* an unbuffered job channel
JobsCapUnbuffered(fs) == 0

\* make(chan Job, len(fp.Files))
JobsCap(fs) == Len(fs)

\* a result buffer that is one slot short
ResultsCapShort(fs) == IF Len(fs) > 0 THEN Len(fs) - 1 ELSE 0

\* make(chan Result, len(fp.Files))
ResultsCap(fs) == Len(fs)

\* the channel of the previous call is kept, with what it holds
ReusedChan(old) == old

\* a channel that make() has just created
FreshChan(old) == <<>>

\* jobs := make(chan Job, len(fp.Files)); fp.Results = make(chan Result, ...)
\* The ghosts start to record the new channels; prev keeps what the
\* previous call published.
MakeChannels ==
  /\ ~Crashed
  /\ pc = "start"
  /\ jobs' = FreshChan(jobs) /\ jobsCap' = JobsCap(fp.Files) /\ jobsClosed' = FALSE
  /\ results' = FreshChan(results) /\ resultsCap' = ResultsCap(fp.Files)
  /\ resultsClosed' = FALSE
  /\ wg' = 0 /\ i' = 0
  /\ pc' = "spawn"
  /\ enqueued' = <<>> /\ dequeued' = <<>> /\ published' = <<>>
  /\ prev' = published
  /\ UNCHANGED <<fp, next, cancelled, wk, snap, run>>

\* for i := 0; i < fp.WorkerCount; i++ { wg.Add(1); go fp.Worker(...) }
Spawn ==
  /\ ~Crashed
  /\ pc = "spawn"
  /\ i < fp.WorkerCount
  /\ wg' = wg + 1
  /\ wk' = [wk EXCEPT ![i + 1] = [IdleWorker EXCEPT !.pc = "select"]]
  /\ i' = i + 1
  /\ UNCHANGED <<pc, fp, chans, next, cancelled, ghosts, run>>

SpawnDone ==
  /\ ~Crashed
  /\ pc = "spawn"
  /\ ~(i < fp.WorkerCount)
  /\ pc' = "feed"
  /\ next' = 1
  /\ UNCHANGED <<fp, chans, wg, i, cancelled, wk, ghosts, run>>

\* every Job gets the path of the last file
FeedPathLast(fs, k) == fs[Len(fs)]

\* the filepath of the k-th iteration of the range loop
FeedPath(fs, k) == fs[k]

\* for _, filepath := range fp.Files { jobs <- Job{filepath, fp.Word} }
\* The send blocks while the buffer is full.
Feed ==
  /\ ~Crashed
  /\ pc = "feed"
  /\ next <= Len(fp.Files)
  /\ Len(jobs) < jobsCap
  /\ jobs' = Append(jobs, Job(FeedPath(fp.Files, next), fp.Word, next))
  /\ enqueued' = Append(enqueued, next)
  /\ next' = next + 1
  /\ UNCHANGED <<pc, fp, jobsCap, jobsClosed, results, resultsCap, resultsClosed,
                 wg, i, cancelled, wk, dequeued, published, snap, run, prev>>

\* close(jobs), after the last file
CloseJobs ==
  /\ ~Crashed
  /\ pc = "feed"
  /\ next > Len(fp.Files)
  /\ jobsClosed' = TRUE
  /\ pc' = "wait"
  /\ UNCHANGED <<fp, jobs, jobsCap, results, resultsCap, resultsClosed,
                 wg, i, next, cancelled, wk, ghosts, run>>

\* wg.Wait() left out: ProcessFiles goes on whatever the counter is
WaitNoBlock(n) == TRUE

\* wg.Wait() returns one worker too early
WaitAtMostOne(n) == n <= 1

\* wg.Wait() returns when the counter is zero
WaitReturns(n) == n = 0

Wait ==
  /\ ~Crashed
  /\ pc = "wait"
  /\ WaitReturns(wg)
  /\ pc' = "closeResults"
  /\ UNCHANGED <<fp, chans, wg, i, next, cancelled, wk, ghosts, run>>

\* close(fp.Results); ProcessFiles returns to main
CloseResults ==
  /\ ~Crashed
  /\ pc = "closeResults"
  /\ resultsClosed' = TRUE
  /\ pc' = "consume"
  /\ UNCHANGED <<fp, jobs, jobsCap, jobsClosed, results, resultsCap,
                 wg, i, next, cancelled, wk, ghosts, run>>

\* main: for result := range fp.Results { print }
Consume ==
  /\ ~Crashed
  /\ pc = "consume"
  /\ Len(results) > 0
  /\ results' = Tail(results)
  /\ UNCHANGED <<pc, fp, jobs, jobsCap, jobsClosed, resultsCap, resultsClosed,
                 wg, i, next, cancelled, wk, ghosts, run>>

\* the range loop ends on the closed, empty channel; main returns and the
\* deferred cancel() runs
MainExit ==
  /\ ~Crashed
  /\ pc = "consume"
  /\ Len(results) = 0 /\ resultsClosed
  /\ pc' = "exit"
  /\ cancelled' = TRUE
  /\ UNCHANGED <<fp, chans, wg, i, next, wk, ghosts, run>>

\* A caller that did not cancel calls fp.ProcessFiles(ctx) a second time, on
\* the same FileProcessor, whatever it has read of fp.Results so far.
Again ==
  /\ ~Crashed
  /\ pc = "consume"
  /\ run = 1
  /\ ~snap.taken
  /\ run' = 2
  /\ pc' = "start"
  /\ UNCHANGED <<fp, chans, wg, i, next, cancelled, wk, ghosts>>

\* ----------------------------------------------------------------- Worker
\* a receive that leaves the Job in the buffer
DequeueKeep(q) == q

\* The receive `job, ok := <-job` of the select.
Dequeue(q) == Tail(q)

\* case job, ok := <-job (ok = TRUE): a Job is buffered.  When ctx.Done()
\* is ready too, select takes either case.
WorkerRecv(w) ==
  /\ ~Crashed
  /\ wk[w].pc = "select"
  /\ Len(jobs) > 0
  /\ wk' = [wk EXCEPT ![w].pc = "open", ![w].job = Head(jobs)]
  /\ jobs' = Dequeue(jobs)
  /\ dequeued' = Append(dequeued, Head(jobs).id)
  /\ UNCHANGED <<pc, fp, jobsCap, jobsClosed, results, resultsCap, resultsClosed,
                 wg, i, next, cancelled, enqueued, published, snap, run, prev>>

\* the first worker that leaves brings the counter to zero
DoneReleasesAll(n) == 0

\* defer wg.Done()
Done(n) == n - 1

\* the worker leaves as soon as it finds the queue empty, closed or not
WorkerRecvClosedOnEmpty(w) ==
  /\ ~Crashed
  /\ wk[w].pc = "select"
  /\ Len(jobs) = 0
  /\ wk' = [wk EXCEPT ![w] = [IdleWorker EXCEPT !.pc = "exited",
                                                 !.open = wk[w].open]]
  /\ wg' = Done(wg)
  /\ UNCHANGED <<pc, fp, chans, i, next, cancelled, ghosts, run>>

\* case job, ok := <-job (ok = FALSE): the channel is closed and drained
WorkerRecvClosed(w) ==
  /\ ~Crashed
  /\ wk[w].pc = "select"
  /\ Len(jobs) = 0 /\ jobsClosed
  /\ wk' = [wk EXCEPT ![w] = [IdleWorker EXCEPT !.pc = "exited",
                                                 !.open = wk[w].open]]
  /\ wg' = Done(wg)
  /\ UNCHANGED <<pc, fp, chans, i, next, cancelled, ghosts, run>>

\* the cancellation exit returns without wg.Done()
DoneOnCancelMissing(n) == n

\* wg.Done() of the cancellation exit
DoneOnCancel(n) == Done(n)

\* the cancellation exit reports the Job at the head of the queue as
\* cancelled, without receiving it
WorkerCtxDoneReportsQueued(w) ==
  /\ ~Crashed
  /\ wk[w].pc = "select"
  /\ cancelled
  /\ wk' = [wk EXCEPT ![w] = [IdleWorker EXCEPT !.pc = "exited",
                                                 !.open = wk[w].open]]
  /\ wg' = DoneOnCancel(wg)
  /\ IF Len(jobs) > 0 /\ ~resultsClosed /\ Len(results) < resultsCap
       THEN /\ results' = Append(results,
                            Result(Head(jobs).FilePath, 0, "canceled", Head(jobs).id))
            /\ published' = Append(published,
                            Result(Head(jobs).FilePath, 0, "canceled", Head(jobs).id))
       ELSE UNCHANGED <<results, published>>
  /\ UNCHANGED <<pc, fp, jobs, jobsCap, jobsClosed, resultsCap, resultsClosed,
                 i, next, cancelled, enqueued, dequeued, snap, run, prev>>

\* case <-ctx.Done(): return
WorkerCtxDone(w) ==
  /\ ~Crashed
  /\ wk[w].pc = "select"
  /\ cancelled
  /\ wk' = [wk EXCEPT ![w] = [IdleWorker EXCEPT !.pc = "exited",
                                                 !.open = wk[w].open]]
  /\ wg' = DoneOnCancel(wg)
  /\ UNCHANGED <<pc, fp, chans, i, next, cancelled, ghosts, run>>

\* --------------------------------------------------------------- CountWord
\* os.Open reports no error although the file is missing
OpenFailResultNilErr(job) == Result(job.FilePath, 0, "nil", job.id)

\* return Result{FilePath: job.FilePath, Error: err}
OpenFailResult(job) == Result(job.FilePath, 0, "open", job.id)

\* file, err := os.Open(job.FilePath); if err != nil { return Result{...} }
OpenFails(w) ==
  /\ ~Crashed
  /\ wk[w].pc = "open"
  /\ ~FS[wk[w].job.FilePath].exists
  /\ wk' = [wk EXCEPT ![w].pc = "publish",
                      ![w].result = OpenFailResult(wk[w].job)]
  /\ UNCHANGED <<pc, fp, chans, wg, i, next, cancelled, ghosts, run>>

\* defer file.Close(); wordCount := 0; scanner := bufio.NewScanner(file)
Open(w) ==
  /\ ~Crashed
  /\ wk[w].pc = "open"
  /\ FS[wk[w].job.FilePath].exists
  /\ wk' = [wk EXCEPT ![w].pc = "scan", ![w].open = TRUE, ![w].line = 0,
                      ![w].wordCount = 0]
  /\ UNCHANGED <<pc, fp, chans, wg, i, next, cancelled, ghosts, run>>

\* scanner.Scan() has a further line
MoreLines(w) == wk[w].line < NumLines(wk[w].job.FilePath)

\* the cancellation branch returns without an error
CancelResultNilErr(job, cnt) == Result(job.FilePath, cnt, "nil", job.id)

\* return Result{FilePath: job.FilePath, Error: ctx.Err()}
CancelResult(job, cnt) == Result(job.FilePath, 0, "canceled", job.id)

\* the read error is returned together with the count so far
ScanErrResultPartial(job, cnt) == Result(job.FilePath, cnt, "read", job.id)

\* return Result{FilePath: job.FilePath, Error: err} after the loop
ScanErrResult(job, cnt) == Result(job.FilePath, 0, "read", job.id)

\* the cancellation return leaves the file open
LeakOnCancel(h) == h

\* defer file.Close(), run by the cancellation return
CloseOnCancel(h) == FALSE

\* scanner.Scan() = true, case <-ctx.Done(): the deferred Close runs
ScanCancelled(w) ==
  /\ ~Crashed
  /\ wk[w].pc = "scan"
  /\ MoreLines(w)
  /\ cancelled
  /\ wk' = [wk EXCEPT ![w].pc = "publish", ![w].open = CloseOnCancel(wk[w].open),
                      ![w].result = CancelResult(wk[w].job, wk[w].wordCount)]
  /\ UNCHANGED <<pc, fp, chans, wg, i, next, cancelled, ghosts, run>>

\* scanner.Scan() = true, default: wordCount += strings.Count(line, job.Word)
ScanLine(w) ==
  /\ ~Crashed
  /\ wk[w].pc = "scan"
  /\ MoreLines(w)
  /\ ~cancelled
  /\ wk' = [wk EXCEPT
              ![w].line = wk[w].line + 1,
              ![w].wordCount = wk[w].wordCount
                 + Count(ScanLines(FS[wk[w].job.FilePath].data)[wk[w].line + 1],
                         wk[w].job.Word)]
  /\ UNCHANGED <<pc, fp, chans, wg, i, next, cancelled, ghosts, run>>

\* scanner.Scan() = false: scanner.Err() decides between the error Result and
\* the count; the deferred Close runs
ScanEnd(w) ==
  /\ ~Crashed
  /\ wk[w].pc = "scan"
  /\ ~MoreLines(w)
  /\ wk' = [wk EXCEPT
              ![w].pc = "publish", ![w].open = FALSE,
              ![w].result =
                 IF FS[wk[w].job.FilePath].ioerr
                   THEN ScanErrResult(wk[w].job, wk[w].wordCount)
                   ELSE Result(wk[w].job.FilePath, wk[w].wordCount, "nil", wk[w].job.id)]
  /\ UNCHANGED <<pc, fp, chans, wg, i, next, cancelled, ghosts, run>>

\* the Results are kept last in, first out
SendFront(q, r) == <<r>> \o q

\* a channel send: the value goes to the back of the buffer
Send(q, r) == Append(q, r)

\* fp.Results <- result: blocks while the buffer is full, panics when the
\* channel is closed; the locals of the loop body go out of scope
Publish(w) ==
  /\ ~Crashed
  /\ wk[w].pc = "publish"
  /\ resultsClosed \/ Len(results) < resultsCap
  /\ IF resultsClosed
       THEN /\ wk' = [wk EXCEPT ![w].pc = "panic"]
            /\ UNCHANGED <<results, published>>
       ELSE /\ wk' = [wk EXCEPT ![w] = [IdleWorker EXCEPT !.pc = "select",
                                                           !.open = wk[w].open]]
            /\ results' = Send(results, wk[w].result)
            /\ published' = Send(published, wk[w].result)
  /\ UNCHANGED <<pc, fp, jobs, jobsCap, jobsClosed, resultsCap, resultsClosed,
                 wg, i, next, cancelled, enqueued, dequeued, snap, run, prev>>

\* ----------------------------------------------------------- specification
Next ==
  \/ LoadConfig
  \/ Cancel
  \/ MakeChannels
  \/ Spawn
  \/ SpawnDone
  \/ Feed
  \/ CloseJobs
  \/ Wait
  \/ CloseResults
  \/ Consume
  \/ MainExit
  \/ Again
  \/ \E w \in Workers : WorkerRecv(w)
  \/ \E w \in Workers : WorkerRecvClosed(w)
  \/ \E w \in Workers : WorkerCtxDone(w)
  \/ \E w \in Workers : OpenFails(w)
  \/ \E w \in Workers : Open(w)
  \/ \E w \in Workers : ScanCancelled(w)
  \/ \E w \in Workers : ScanLine(w)
  \/ \E w \in Workers : ScanEnd(w)
  \/ \E w \in Workers : Publish(w)

Spec == Init /\ [][Next]_vars

\* Every goroutine that can take a step is eventually scheduled; the caller's
\* cancel() is under no obligation to happen.
Program ==
  \/ LoadConfig \/ MakeChannels \/ Spawn \/ SpawnDone \/ Feed \/ CloseJobs
  \/ Wait \/ CloseResults \/ Consume \/ MainExit

WorkerStep(w) ==
  \/ WorkerRecv(w) \/ WorkerRecvClosed(w) \/ WorkerCtxDone(w)
  \/ OpenFails(w) \/ Open(w) \/ ScanCancelled(w) \/ ScanLine(w) \/ ScanEnd(w)
  \/ Publish(w)

FairSpec ==
  /\ Spec
  /\ WF_vars(Program)
  /\ \A w \in Workers : WF_vars(WorkerStep(w))

TypeOK ==
  /\ pc \in {"load", "start", "spawn", "feed", "wait", "closeResults", "consume", "exit"}
  /\ wg \in 0..MaxWorkers
  /\ run \in {1, 2}
  /\ \A w \in Workers :
       wk[w].pc \in {"idle", "select", "open", "scan", "publish", "exited", "panic"}

\* -------------------------------------------------- reference computations
\* The total of strings.Count over the lines of a file.
RECURSIVE SumCounts(_, _)
SumCounts(lines, w) ==
  IF Len(lines) = 0 THEN 0 ELSE Count(Head(lines), w) + SumCounts(Tail(lines), w)

\* What CountWord returns for a Job whose scan no cancellation interrupts.
FullScan(path, w, n) ==
  IF ~FS[path].exists THEN Result(path, 0, "open", n)
  ELSE IF FS[path].ioerr THEN Result(path, 0, "read", n)
  ELSE Result(path, SumCounts(ScanLines(FS[path].data), w), "nil", n)

DequeuedIds == {dequeued[k] : k \in 1..Len(dequeued)}
\* The worker that holds Job n, between its receive and the send of its Result.
Holders(n) == {w \in InFlight : wk[w].job.id = n}
ResultsOf(n) == {k \in 1..Len(published) : published[k].id = n}

\* ProcessFiles has returned: the result channel is closed.
Returned == pc \in {"consume", "exit"}
\* The caller never cancelled ctx during the run.
NeverCancelled == ~snap.taken

\* ------------------------------------------------------------------ claims
\* C1: for a non-empty file list and WorkerCount >= 1, when ctx is never
\* cancelled during the run, the number of Results published by the time the
\* result channel is closed equals the number of files, in every interleaving.
C1_ResultPerFile ==
  (Returned /\ Len(fp.Files) >= 1 /\ fp.WorkerCount >= 1 /\ NeverCancelled)
     => Len(published) = Len(fp.Files)

C1_Witness ==
  /\ Returned /\ NeverCancelled
  /\ Len(fp.Files) = 2 /\ fp.WorkerCount = 2
  /\ Len(published) = 2
  /\ Len(dequeued) = 2

\* C2: one Job per position of the file list is enqueued, never twice; no Job
\* is dequeued twice (by the same or by two workers); a dequeued Job has no
\* Result while its worker is still working on it and exactly one Result,
\* carrying its file path, from the moment that worker is back at the select
\* or has exited.
C2_JobOnceResultOnce ==
  /\ Len(enqueued) <= Len(fp.Files)
  /\ \A k \in 1..Len(enqueued) : enqueued[k] = k
  /\ \A k \in 1..Len(jobs) : jobs[k] = Job(fp.Files[jobs[k].id], fp.Word, jobs[k].id)
  /\ \A a, b \in 1..Len(dequeued) : a # b => dequeued[a] # dequeued[b]
  /\ \A n \in DequeuedIds :
       /\ Cardinality(Holders(n)) <= 1
       /\ IF Holders(n) # {}
            THEN ResultsOf(n) = {}
            ELSE /\ Cardinality(ResultsOf(n)) = 1
                 /\ \A r \in ResultsOf(n) : published[r].FilePath = fp.Files[n]
  /\ \A w \in InFlight : wk[w].job.id \in DequeuedIds

C2_Witness ==
  /\ Returned /\ snap.taken
  /\ Len(dequeued) = 2
  /\ Len(published) = 2
  /\ fp.Files[1] = fp.Files[2]

\* C3: with WorkerCount >= 1, under fair scheduling, a run of ProcessFiles
\* that has started ends: every spawned worker has exited, the WaitGroup is
\* at zero and the result channel is closed, with or without cancellation.
AllExited == \A w \in Workers : (w <= fp.WorkerCount) => wk[w].pc = "exited"

C3_Terminates ==
  (pc = "start" /\ fp.WorkerCount >= 1) ~> (resultsClosed /\ wg = 0 /\ AllExited)

C3_Witness ==
  /\ resultsClosed /\ wg = 0 /\ AllExited
  /\ fp.WorkerCount = 2 /\ Len(fp.Files) = 2
  /\ snap.taken /\ snap.inflight # {} /\ Len(dequeued) < Len(enqueued)

\* C4: once ctx is cancelled no worker receives a further Job from the job
\* queue: the Jobs queued at that moment are never dequeued.
C4_NoDequeueAfterCancel == [][cancelled => dequeued' = dequeued]_vars

\* C5 (as claimed): every Job in flight when ctx is cancelled yields a Result
\* whose Error is the cancellation error.
C5_InFlightAlwaysCancelled ==
  \A k \in 1..Len(published) :
     published[k].id \in snap.inflight => published[k].Error = "canceled"

\* C5 (amended): a Job in flight when ctx is cancelled yields the cancellation
\* error, with WordCount 0, exactly when CountWord still has a line to read at
\* that moment (the file opens and scanner.Scan() returns true once more);
\* otherwise its Result is the one an uninterrupted scan returns: the open or
\* read error, or the full count with a nil error.
C5_CancelSeenAtLineCheck ==
  \A k \in 1..Len(published) :
     LET r == published[k] IN
     r.id \in snap.inflight =>
        IF r.id \in snap.checks
          THEN r = Result(fp.Files[r.id], 0, "canceled", r.id)
          ELSE r = FullScan(fp.Files[r.id], fp.Word, r.id)

C5_Witness ==
  \E a, b \in 1..Len(published) :
     /\ published[a].id \in snap.inflight /\ published[a].id \in snap.checks
     /\ published[a].Error = "canceled"
     /\ published[b].id \in snap.inflight /\ published[b].id \notin snap.checks
     /\ published[b].Error = "nil" /\ published[b].WordCount > 0

\* C6: every Result carries the id and the file path of a Job that a worker
\* dequeued, there are never more Results than dequeued Jobs, and a Job that
\* was enqueued but never dequeued has no Result.
C6_NoResultWithoutDequeue ==
  /\ \A k \in 1..Len(published) :
        /\ published[k].id \in DequeuedIds
        /\ published[k].FilePath = fp.Files[published[k].id]
  /\ Len(published) <= Len(dequeued)
  /\ \A k \in 1..Len(enqueued) :
        enqueued[k] \notin DequeuedIds => ResultsOf(enqueued[k]) = {}

C6_Witness ==
  /\ Returned
  /\ Len(enqueued) = 2 /\ Len(dequeued) = 1
  /\ Len(published) = 1 /\ published[1].Error = "nil"

\* C7: with 10 files and one worker, when ctx is cancelled before the worker
\* has dequeued any Job, the run emits fewer than 10 Results.
C7_FewerThanTen ==
  (Returned /\ Len(fp.Files) = 10 /\ fp.WorkerCount = 1 /\ snap.taken /\ snap.fresh)
     => Len(published) < 10

\* C8: a configuration with WorkerCount <= 0, an empty word or an empty file
\* list is rejected by LoadConfig: main exits, no worker is spawned and no Job
\* is enqueued.
InvalidConfig ==
  fp.WorkerCount <= 0 \/ Len(fp.Word) = 0 \/ Len(fp.Files) = 0

C8_InvalidConfigRejected ==
  (pc # "load" /\ InvalidConfig)
     => /\ pc = "exit"
        /\ enqueued = <<>>
        /\ \A w \in Workers : wk[w].pc = "idle"

\* The results part of C9, as a state predicate.
C9_Results ==
  /\ \A k \in 1..Len(published) :
        ~FS[published[k].FilePath].exists
           => published[k].Error # "nil" /\ published[k].WordCount = 0
  /\ (Returned /\ NeverCancelled /\ fp.WorkerCount >= 1)
        => \A n \in 1..Len(fp.Files) :
              /\ Cardinality(ResultsOf(n)) = 1
              /\ \A r \in ResultsOf(n) :
                    published[r] = FullScan(fp.Files[n], fp.Word, n)

HasMissingFile == \E n \in 1..Len(fp.Files) : ~FS[fp.Files[n]].exists

\* C9: the Result of a Job whose file cannot be opened has a non-nil Error and
\* WordCount 0; in a run with WorkerCount >= 1 that the caller never cancels,
\* once the result channel is closed every Job, the failing one and each of
\* its siblings, has exactly one Result, equal to what a scan of its file
\* alone returns; and under fair scheduling a run with such a file ends with
\* the result channel closed.
C9_OpenFailureIsLocal ==
  /\ []C9_Results
  /\ (pc = "start" /\ fp.WorkerCount >= 1 /\ HasMissingFile) ~> resultsClosed

C9_Witness ==
  /\ Returned /\ NeverCancelled /\ resultsClosed
  /\ Len(fp.Files) = 2 /\ fp.Files[1] = "missing.txt" /\ fp.Files[2] = "ok.txt"
  /\ \E a, b \in 1..Len(published) :
        /\ published[a].id = 1 /\ published[a].Error = "open"
        /\ published[b].id = 2 /\ published[b].Error = "nil"
        /\ published[b].WordCount = 3

\* C10: a Result that carries an error (open failure, read error or
\* cancellation) has WordCount 0, whatever CountWord had counted before.
C10_ErrorMeansZeroCount ==
  /\ \A k \in 1..Len(published) :
        published[k].Error # "nil" => published[k].WordCount = 0
  /\ \A w \in Workers :
        (wk[w].pc = "publish" /\ wk[w].result.Error # "nil")
           => wk[w].result.WordCount = 0

C10_Witness ==
  \E v, w \in Workers :
     /\ wk[v].pc = "publish" /\ wk[v].result.Error = "canceled" /\ wk[v].wordCount > 0
     /\ wk[w].pc = "publish" /\ wk[w].result.Error = "read" /\ wk[w].wordCount > 0

\* ------------------------------------------------------------ C11 .. C20
SeqRange(q) == {q[k] : k \in 1..Len(q)}
Occurs(q, x) == Cardinality({k \in 1..Len(q) : q[k] = x})
\* Two sequences hold the same elements the same number of times.
SameBag(a, b) ==
  /\ Len(a) = Len(b)
  /\ \A x \in SeqRange(a) \cup SeqRange(b) : Occurs(a, x) = Occurs(b, x)

\* The (file path, word count) pairs of a sequence of Results.
PairsOf(rs) == [k \in 1..Len(rs) |-> <<rs[k].FilePath, rs[k].WordCount>>]
\* The pairs the file list and the word determine, one per file.
ExpectedPairs(fs, w) ==
  [n \in 1..Len(fs) |-> <<fs[n], FullScan(fs[n], w, n).WordCount>>]

\* C11: in a run that the caller never cancels, for every WorkerCount >= 1
\* (1, 2, ..., the number of files and beyond) and every interleaving, the
\* multiset of (file path, word count) pairs published is the one the file
\* list, the file contents and the word determine; WorkerCount and the
\* schedule only change the order.
C11_SameMultisetAnyWorkerCount ==
  (Returned /\ NeverCancelled /\ fp.WorkerCount >= 1)
     => SameBag(PairsOf(published), ExpectedPairs(fp.Files, fp.Word))

C11_Witness ==
  /\ Returned /\ NeverCancelled
  /\ fp.WorkerCount = 2 /\ fp.Files = <<"ok.txt", "bad.txt">>
  /\ PairsOf(published) = <<<<"bad.txt", 0>>, <<"ok.txt", 3>>>>

\* The largest number of pairwise non-overlapping places of s where sub
\* occurs, letter for letter.
MatchPlaces(s, sub) ==
  {k \in 1..(Len(s) + 1) :
      /\ k + Len(sub) - 1 <= Len(s)
      /\ \A j \in 1..Len(sub) : s[k + j - 1] = sub[j]}

NonOverlapping(S, sub) ==
  \A a, b \in S : a < b => a + Len(sub) <= b

MaxNonOverlap(s, sub) ==
  LET sizes == {Cardinality(S) : S \in {T \in SUBSET MatchPlaces(s, sub) :
                                           NonOverlapping(T, sub)}}
  IN  CHOOSE m \in sizes : \A n \in sizes : n <= m

RECURSIVE SumMaxNonOverlap(_, _)
SumMaxNonOverlap(lines, sub) ==
  IF Len(lines) = 0 THEN 0
  ELSE MaxNonOverlap(Head(lines), sub) + SumMaxNonOverlap(Tail(lines), sub)

\* C12: a Result with a nil Error (the file was read to end-of-file, without
\* error or cancellation) has as WordCount the sum over the lines of the file
\* of the number of non-overlapping, case-sensitive occurrences of the word in
\* that line; and a worker that reaches end-of-file returns a nil Error.
C12_CountIsSumOverLines ==
  /\ \A k \in 1..Len(published) :
        published[k].Error = "nil" =>
           published[k].WordCount =
              SumMaxNonOverlap(ScanLines(FS[published[k].FilePath].data), fp.Word)
  /\ \A w \in Workers :
        (wk[w].pc = "publish" /\ ~FS[wk[w].job.FilePath].ioerr
           /\ FS[wk[w].job.FilePath].exists /\ wk[w].result.Error # "canceled")
        => /\ wk[w].result.Error = "nil"
           /\ wk[w].result.WordCount =
                 SumMaxNonOverlap(ScanLines(FS[wk[w].job.FilePath].data), wk[w].job.Word)

C12_Witness ==
  \E k \in 1..Len(published) :
     /\ published[k].Error = "nil" /\ published[k].FilePath = "ok.txt"
     /\ published[k].WordCount = 3
     /\ fp.Word = TargetWord
     /\ Count(ScanLines(FS["ok.txt"].data)[2], fp.Word) = 2

\* q is what is left of p after some receives from the front.
IsSuffix(q, p) ==
  /\ Len(q) <= Len(p)
  /\ q = SubSeq(p, Len(p) - Len(q) + 1, Len(p))

\* The fields of the Go Result, without the ghost id.
Visible(rs) ==
  [k \in 1..Len(rs) |-> <<rs[k].FilePath, rs[k].WordCount, rs[k].Error>>]

\* C13: a second call of ProcessFiles on the same FileProcessor, with the
\* same inputs and no cancellation, works on fresh channels: from its make()
\* on, the job queue holds only Jobs this call enqueued and has not yet
\* handed out, the result channel only Results this call published and the
\* consumer has not yet read; and when it has returned, the multiset of its
\* Results is that of the first call.
C13_SecondRunSameResults ==
  (run = 2 /\ pc # "start")
     => /\ IsSuffix(results, published)
        /\ IsSuffix([k \in 1..Len(jobs) |-> jobs[k].id], enqueued)
        /\ Len(jobs) + Len(dequeued) = Len(enqueued)
        /\ Returned => SameBag(Visible(published), Visible(prev))

C13_Witness ==
  /\ run = 2 /\ Returned
  /\ Len(published) = 2 /\ Len(prev) = 2
  /\ published # prev
  /\ published[1].Error = "nil"

Live == {w \in Workers : wk[w].pc \in {"select", "open", "scan", "publish", "panic"}}

\* The state part of C14.
C14_State ==
  /\ \A w \in Workers : wk[w].pc # "panic"
  /\ wg = Cardinality(Live)
  /\ pc = "closeResults" => ~resultsClosed /\ wg = 0 /\ Live = {}
  /\ pc \in {"wait", "closeResults"} => results = published
  /\ resultsClosed => /\ Live = {}
                      /\ wg = 0
                      /\ IsSuffix(results, published)

\* C14: close(fp.Results) runs on a channel that is still open (so exactly
\* once per call), and only when every spawned worker has signalled its
\* completion: the WaitGroup counter always equals the number of workers
\* that have not exited, on both exit paths; no send ever hits the closed
\* channel (no panic), and nothing is published while the channel is closed,
\* so every Result is in the channel when it is closed.
C14_CloseAfterAllDone ==
  /\ []C14_State
  /\ [][(resultsClosed /\ resultsClosed') => published' = published]_vars
  /\ [][(~resultsClosed /\ resultsClosed') => (wg = 0 /\ Live = {} /\ results = published)]_vars

C14_Witness ==
  /\ resultsClosed /\ pc = "consume" /\ run = 1
  /\ fp.WorkerCount = 2
  /\ snap.taken /\ snap.inflight # {}
  /\ Len(results) = 2

\* C15: once the channels are made their capacity is the number of files;
\* neither buffer ever holds more; the dispatcher, when it is about to send a
\* Job, finds a free slot, and so does a worker that is about to send a
\* Result, although nothing reads fp.Results before ProcessFiles returns.
C15_NeverBlocks ==
  /\ pc \notin {"load", "start"}
        => jobsCap = Len(fp.Files) /\ resultsCap = Len(fp.Files)
  /\ Len(jobs) <= Len(fp.Files) /\ Len(results) <= Len(fp.Files)
  /\ (pc = "feed" /\ next <= Len(fp.Files)) => Len(jobs) < jobsCap
  /\ \A w \in Workers : wk[w].pc = "publish" => Len(results) < resultsCap

C15_Witness ==
  /\ pc = "wait" /\ ~resultsClosed
  /\ Len(fp.Files) = 2
  /\ Len(results) = 1 /\ resultsCap = 2
  /\ \E w \in Workers : wk[w].pc = "publish"

\* The state part of C16.
C16_State ==
  /\ \A k \in 1..Len(enqueued) : enqueued[k] = k
  /\ IsSuffix([k \in 1..Len(jobs) |-> jobs[k].id], enqueued)
  /\ \A k \in 1..Len(jobs) : jobs[k].FilePath = fp.Files[jobs[k].id]
  /\ jobsClosed => Len(enqueued) = Len(fp.Files)
  /\ (NeverCancelled /\ fp.WorkerCount >= 1 /\ pc \in {"closeResults", "consume", "exit"})
        => jobs = <<>> /\ Len(dequeued) = Len(fp.Files)

\* C16: the Jobs are enqueued in file-list order, one per file; close(jobs)
\* happens when the last one is in, and nothing is enqueued on the closed
\* queue; as long as ctx is not cancelled a worker leaves its loop only on
\* the closed and empty queue, so that in a run without cancellation the
\* queue is empty and every Job dequeued once the workers have exited.
C16_CloseAfterLastJob ==
  /\ []C16_State
  /\ [][(~jobsClosed /\ jobsClosed') => Len(enqueued) = Len(fp.Files)]_vars
  /\ [][(jobsClosed /\ jobsClosed') => (enqueued' = enqueued /\ Len(jobs') <= Len(jobs))]_vars
  /\ [][\A w \in Workers :
          (wk[w].pc = "select" /\ wk'[w].pc = "exited" /\ ~cancelled)
             => (Len(jobs) = 0 /\ jobsClosed)]_vars

C16_Witness ==
  /\ pc = "wait" /\ NeverCancelled /\ run = 1
  /\ fp.WorkerCount = 2 /\ Len(fp.Files) = 2
  /\ AllExited /\ jobsClosed /\ jobs = <<>> /\ dequeued = <<1, 2>>

ZeroWorkers == pc # "load" /\ fp.WorkerCount <= 0 /\ Len(fp.Files) >= 1

\* C17 (as claimed): with WorkerCount <= 0 and a non-empty file list no worker
\* is spawned, no Job is dequeued, ProcessFiles never returns and the result
\* channel is never closed.
C17_HangsForever ==
  ZeroWorkers
     => /\ \A w \in Workers : wk[w].pc = "idle"
        /\ dequeued = <<>>
        /\ ~Returned
        /\ ~resultsClosed

\* The state part of the amended C17.
C17_State ==
  ZeroWorkers
     => /\ \A w \in Workers : wk[w].pc = "idle"
        /\ dequeued = <<>> /\ published = <<>> /\ results = <<>>
        /\ Returned => /\ resultsClosed /\ jobsClosed
                       /\ Len(jobs) = Len(fp.Files)

\* C17 (amended): with WorkerCount <= 0 and a non-empty file list no worker is
\* spawned and no Job is ever dequeued, but ProcessFiles does not hang: under
\* fair scheduling it returns, with every Job still in the closed job queue
\* and the result channel closed and empty.
C17_ReturnsWithNothingDone ==
  /\ []C17_State
  /\ (pc = "start" /\ ZeroWorkers) ~> (Returned /\ resultsClosed)

C17_Witness ==
  /\ ZeroWorkers /\ Returned /\ resultsClosed /\ run = 1
  /\ Len(jobs) = 2 /\ results = <<>> /\ published = <<>>

\* C18: whatever the order of the Results, each carries the file path of its
\* own Job and no Job has two Results, and in a returned, never-cancelled run
\* with WorkerCount >= 1 the Results are a permutation of the Jobs; the
\* witness is a run of two workers and two files whose Results stand in the
\* channel in the reverse of the file-list order.
C18_AnyOrderStillCorrelated ==
  /\ \A k \in 1..Len(published) :
        /\ published[k].id \in 1..Len(fp.Files)
        /\ published[k].FilePath = fp.Files[published[k].id]
  /\ \A a, b \in 1..Len(published) : a # b => published[a].id # published[b].id
  /\ (Returned /\ NeverCancelled /\ fp.WorkerCount >= 1)
        => {published[k].id : k \in 1..Len(published)} = 1..Len(fp.Files)

C18_Witness ==
  /\ NeverCancelled /\ resultsClosed /\ run = 1
  /\ fp.WorkerCount >= 2 /\ Len(fp.Files) >= 2
  /\ results = published
  /\ results[1].id = 2 /\ results[2].id = 1
  /\ results[1].FilePath = "ok.txt" /\ results[2].FilePath = "missing.txt"

Handles == {w \in Workers : wk[w].open}
InCountWord == {w \in Workers : wk[w].pc \in {"open", "scan"}}

\* C19: a file handle is open only while its worker is inside CountWord past
\* a successful os.Open; it is closed when CountWord has returned, on the
\* end-of-file, read-error and cancellation returns alike; there are never
\* more open handles than workers inside CountWord, and none once the result
\* channel is closed.
C19_HandlesReleased ==
  /\ \A w \in Workers : wk[w].open => wk[w].pc = "scan"
  /\ \A w \in Workers : wk[w].pc = "publish" => ~wk[w].open
  /\ Cardinality(Handles) <= Cardinality(InCountWord)
  /\ resultsClosed => Handles = {}

C19_Witness ==
  \E v, w \in Workers :
     /\ wk[v].pc = "publish" /\ wk[v].result.Error = "canceled" /\ ~wk[v].open
     /\ wk[w].pc = "scan" /\ wk[w].open /\ wk[w].job.FilePath = "bad.txt"

\* C20: with WorkerCount = 1 and no cancellation the Jobs are dequeued and the
\* Results published in file-list order: the k-th Result is that of the k-th
\* file, and the worker never holds a Job beyond the one that follows the
\* last Result.
C20_SingleWorkerKeepsOrder ==
  (fp.WorkerCount = 1 /\ NeverCancelled)
     => /\ \A k \in 1..Len(dequeued) : dequeued[k] = k
        /\ \A k \in 1..Len(published) :
              /\ published[k].id = k
              /\ published[k].FilePath = fp.Files[k]
        /\ Len(published) <= Len(dequeued)
        /\ Len(dequeued) <= Len(published) + 1

C20_Witness ==
  /\ fp.WorkerCount = 1 /\ NeverCancelled /\ Returned
  /\ fp.Files = <<"bad.txt", "ok.txt">>
  /\ Visible(published) = <<<<"bad.txt", 0, "read">>, <<"ok.txt", 3, "nil">>>>
====
